---- MODULE Spec2Model ----
(***************************************************************************)
(* holepuncher-server: the Linode orchestration engine.                    *)
(*                                                                         *)
(* The model follows the Go sources: the transport executor and the        *)
(* pagination cursor (linode_client.go), the LinodeAPI list / query /      *)
(* create / rebuild / delete calls (linode.go), the protobuf facade with   *)
(* its role guard and convergence poller (protobufLinode) and the          *)
(* response writer (protobuf_writer.go).                                   *)
(*                                                                         *)
(* Spec runs verbs one after another, SpecRequest a single request,        *)
(* SpecRace two CreateTunnel requests at once; SpecPage, SpecParams,      *)
(* SpecExec and SpecBuilder drive the pagination cursor,                   *)
(* makeStackScriptParams, linodeSimpleExec with WriteError, and the        *)
(* instance builders on their own; SpecToggle calls makeStackScriptParams  *)
(* several times in a row and SpecError drives createError.               *)
(*                                                                         *)
(* Strings whose content the code inspects (instance labels, tested with   *)
(* strings.HasPrefix) are sequences of characters.  A nil pointer is the   *)
(* record NilInfo / NilScript, a nil error is NoErr.                       *)
(***************************************************************************)
EXTENDS Integers, Sequences, FiniteSets, TLC

VARIABLES
    loopVarShared,  \* the build: TRUE when a range loop has one variable per
                    \* loop (Go before 1.22), FALSE when one per iteration
    instances,      \* the provider account: instance records in listing order
    nextId,         \* the id the provider gives the next created instance
    cleanStart,     \* the account held no role instance at the start
    started,        \* number of verbs invoked so far
    inv,            \* per request handler: the position and locals of its verb
    cursor,         \* a pageIterator driven on its own (pagination runs)
    probe           \* a helper function driven on its own: input and result

vars ==
    <<loopVarShared, instances, nextId, cleanStart, started, inv, cursor,
      probe>>

---------------------------------------------------------------------------
(* Bounds of the model *)

\* instances in the account at the start
MaxInit == 2
\* verbs invoked in one run
MaxCalls == 2
\* items the provider puts on one page
PageSize == 2
\* entries of a catalog (scripts, plans, regions, images) at the provider
MaxCatalog == 2
\* items of a listing driven through the stand-alone cursor
MaxItems == 7

(* Program constants *)

\* awaitUntilRunning: maxAttempts
maxAttempts == 20

\* newProtobufLinode: instanceLabel = "hp_instance"
instanceLabel == <<"h", "p", "_", "i", "n", "s", "t", "a", "n", "c", "e">>
\* newProtobufLinode: instanceScript
instanceScript == "freedom_node"

---------------------------------------------------------------------------
(* Values *)

Procs == {1, 2}

\* labels of the instances an account may hold at the start: the role label,
\* a longer label that starts with it, a proper prefix of it, another label
InitLabels ==
    { instanceLabel,
      instanceLabel \o <<"_", "2">>,
      <<"h", "p">>,
      <<"w", "e", "b">> }

ScriptLabels == {instanceScript, "other_script"}

NilInfo == [id |-> 0, label |-> <<>>, status |-> "nil"]
NilScript == [id |-> 0, label |-> ""]

NoErr == [nil |-> TRUE, msg |-> ""]
Err(msg) == [nil |-> FALSE, msg |-> msg]

LinodeStatusBooting == "booting"
LinodeStatusRunning == "running"
LinodeStatusProvisioning == "provisioning"
LinodeStatusRebuilding == "rebuilding"

Min(a, b) == IF a < b THEN a ELSE b

\* the account a run starts from: MaxInit or fewer instances, ids 1..n
Accounts ==
    UNION { { [i \in 1..n |-> [id |-> i, label |-> f[i], status |-> LinodeStatusRunning]]
              : f \in [1..n -> InitLabels] } : n \in 0..MaxInit }

\* the script catalog the provider holds when it is listed
Catalogs ==
    UNION { { [i \in 1..n |-> [id |-> 100 + i, label |-> f[i]]]
              : f \in [1..n -> ScriptLabels] } : n \in 0..MaxCatalog }

\* a label starts with the role prefix "hp_instance"
StartsWithRole(label) ==
    /\ Len(label) >= Len(instanceLabel)
    /\ \A i \in 1..Len(instanceLabel) : label[i] = instanceLabel[i]

\* positions of the instances of a list whose label starts with the role prefix
RoleAt(list) == { i \in 1..Len(list) : StartsWithRole(list[i].label) }

---------------------------------------------------------------------------
(* strings.HasPrefix *)

HasPrefix(s, prefix) ==
    /\ Len(s) >= Len(prefix)
    /\ SubSeq(s, 1, Len(prefix)) = prefix


---------------------------------------------------------------------------
(* The provider's paged list endpoints *)

\* total page count the provider reports for a listing of n items
pageCount(n) == IF n = 0 THEN 1 ELSE (n + PageSize - 1) \div PageSize

\* the items of page k
pageData(all, k) ==
    SubSeq(all, (k - 1) * PageSize + 1, Min(k * PageSize, Len(all)))

\* a cursor that sends the page parameter on every call
pageParamAlways(page) == page

\* the `page` query parameter next() sends: 0 stands for no parameter
pageParam(page) == IF page > 1 THEN page ELSE 0

\* the page the provider serves for a `page` parameter (none: the first)
servedPage(param) == IF param = 0 THEN 1 ELSE param

\* a next() that reports more pages after a failed call
nextErrorHasMore(page, all, ok) ==
    IF ~ok
    THEN [err |-> Err("GET request failed"), data |-> <<>>,
          hasMore |-> TRUE, page |-> page]
    ELSE [err |-> NoErr,
          data |-> pageData(all, servedPage(pageParam(page))),
          hasMore |-> (page + 1) < pageCount(Len(all)),
          page |-> page + 1]

\* a next() that reports more pages until one past the last was fetched
nextPastTheEnd(page, all, ok) ==
    IF ~ok
    THEN [err |-> Err("GET request failed"), data |-> <<>>,
          hasMore |-> FALSE, page |-> page]
    ELSE [err |-> NoErr,
          data |-> pageData(all, servedPage(pageParam(page))),
          hasMore |-> (page + 1) <= pageCount(Len(all)) + 1,
          page |-> page + 1]

(* pageIterator.next: one GET; result.err, the page's data, hasMorePages and
   the cursor's page counter after the call *)
next(page, all, ok) ==
    IF ~ok
    THEN [err |-> Err("GET request failed"), data |-> <<>>,
          hasMore |-> FALSE, page |-> page]
    ELSE [err |-> NoErr,
          data |-> pageData(all, servedPage(pageParam(page))),
          hasMore |-> (page + 1) < pageCount(Len(all)),
          page |-> page + 1]

(* The loop of ListLinodeInstances, ListStackScriptsPrivate, ListLinodeImages,
   ListInstanceTypes and ListRegions: next() until an error or hasNext is
   false.  failAt is the number of the request that fails (0: none).
   Gives the list, the error and the `page` parameters sent. *)
RECURSIVE listLoop(_, _, _, _, _)
listLoop(all, failAt, page, list, reqs) ==
    LET nreq == Len(reqs) + 1
        r == next(page, all, nreq # failAt)
        sent == Append(reqs, pageParam(page))
    IN  IF ~r.err.nil
        THEN [list |-> list, err |-> r.err, reqs |-> sent]
        ELSE IF ~r.hasMore
             THEN [list |-> list \o r.data, err |-> NoErr, reqs |-> sent]
             ELSE listLoop(all, failAt, r.page, list \o r.data, sent)

ListAll(all, failAt) == listLoop(all, failAt, 1, <<>>, <<>>)

\* the requests a listing of `all` can fail at: none, or any of its pages
FailPoints(all) == 0..pageCount(Len(all))

---------------------------------------------------------------------------
(* The Tunnel Role Guard *)

(* The slice retrieveTunnelInstance collects with
       for _, instance := range instances { ... append(.., &instance) }
   With one loop variable per loop every collected pointer is the address of
   that one variable, which holds the last listed instance once the loop has
   ended; with one variable per iteration each pointer keeps its own match. *)
tunnelInstances(list, name) ==
    LET m == SelectSeq(list, LAMBDA x : HasPrefix(x.label, name))
    IN  IF loopVarShared
        THEN [i \in 1..Len(m) |-> list[Len(list)]]
        ELSE m

\* retrieveTunnelInstance with `len(tunnelInstances) > 1` for `>= 1`
retrieveTunnelInstanceOffByOne(lst, name) ==
    IF ~lst.err.nil
    THEN [info |-> NilInfo, err |-> lst.err]
    ELSE LET t == tunnelInstances(lst.list, name)
         IN  IF Len(t) > 1
             THEN [info |-> t[1], err |-> NoErr]
             ELSE [info |-> NilInfo, err |-> NoErr]

\* lst: what ListLinodeInstances returned (list, err)
retrieveTunnelInstance(lst, name) ==
    IF ~lst.err.nil
    THEN [info |-> NilInfo, err |-> lst.err]
    ELSE LET t == tunnelInstances(lst.list, name)
         IN  IF Len(t) >= 1
             THEN [info |-> t[1], err |-> NoErr]
             ELSE [info |-> NilInfo, err |-> NoErr]

ensureTunnelExists(lst, name) ==
    LET r == retrieveTunnelInstance(lst, name)
    IN  IF ~r.err.nil
        THEN [info |-> NilInfo, err |-> r.err]
        ELSE IF r.info = NilInfo
             THEN [info |-> NilInfo, err |-> Err("Tunnel does not exist")]
             ELSE [info |-> r.info, err |-> NoErr]

ensureTunnelDoesNotExist(lst, name) ==
    LET r == retrieveTunnelInstance(lst, name)
    IN  IF ~r.err.nil
        THEN r.err
        ELSE IF r.info # NilInfo
             THEN Err("Tunnel already exists")
             ELSE NoErr

---------------------------------------------------------------------------
(* The script lookup of makeStackScriptParams *)

(* for _, s := range scripts { if s.Label == scriptName { script = &s } }
   script is nil when no entry matches; otherwise it points at the loop
   variable (the last catalog entry once the loop has ended) or, with one
   variable per iteration, at the last matching entry. *)
findScript(scripts, name) ==
    LET m == SelectSeq(scripts, LAMBDA s : s.label = name)
    IN  IF Len(m) = 0
        THEN NilScript
        ELSE IF loopVarShared
             THEN scripts[Len(scripts)]
             ELSE m[Len(m)]

\* lst: what ListStackScriptsPrivate returned
lookupScript(lst, name) ==
    IF ~lst.err.nil
    THEN [script |-> NilScript, err |-> lst.err]
    ELSE LET s == findScript(lst.list, name)
         IN  IF s = NilScript
             THEN [script |-> NilScript,
                   err |-> Err("Stackscript is missing: " \o name)]
             ELSE [script |-> s, err |-> NoErr]

---------------------------------------------------------------------------
(* Responses and the network calls of one invocation *)

\* protoapi.LinodeInstance_Status_value[strings.ToUpper(status)]
statusValue(status) ==
    CASE status = "running" -> "RUNNING"
      [] status = "booting" -> "BOOTING"
      [] status = "provisioning" -> "PROVISIONING"
      [] status = "rebuilding" -> "REBUILDING"
      [] OTHER -> "OFFLINE"

linodeInstanceToProtobuf(info) ==
    [Id |-> info.id, Label |-> info.label, Status |-> statusValue(info.status)]

NoInstance == [Id |-> 0, Label |-> <<>>, Status |-> "OFFLINE"]

\* protobufHTTPWriter.WriteError / WriteMessage: one response written
WriteError(verb, err) ==
    [kind |-> "error", verb |-> verb, err |-> err,
     instance |-> NoInstance, items |-> 0]
WriteMessage(verb, instance, items) ==
    [kind |-> "message", verb |-> verb, err |-> NoErr,
     instance |-> instance, items |-> items]

\* one request sent to the provider: method, endpoint, the page parameter or
\* the instance id in the path, and the label the provider holds for that id
Call(m, ep, arg, tlabel) == [m |-> m, ep |-> ep, arg |-> arg, tlabel |-> tlabel]

\* a listing whose page requests are all sent a second time
PageCallsTwice(ep, reqs) ==
    [i \in 1..(2 * Len(reqs)) |->
        Call("GET", ep, reqs[((i - 1) % Len(reqs)) + 1], <<>>)]

PageCalls(ep, reqs) == [i \in 1..Len(reqs) |-> Call("GET", ep, reqs[i], <<>>)]

\* the provider's record of an instance id (NilInfo: no such instance)
Lookup(id) ==
    IF \E i \in 1..Len(instances) : instances[i].id = id
    THEN instances[CHOOSE i \in 1..Len(instances) : instances[i].id = id]
    ELSE NilInfo

---------------------------------------------------------------------------
(* Request handlers *)

NoListing == [list |-> <<>>, err |-> NoErr, reqs |-> <<>>]

Idle ==
    [pc |-> "idle", verb |-> "none", plan |-> "", region |-> "", token |-> "",
     listing |-> NoListing, guardErr |-> NoErr,
     tunnel |-> NilInfo, script |-> NilScript,
     instance |-> NilInfo, latest |-> NilInfo, attempt |-> 0,
     snapshot |-> NilInfo, queryErr |-> NoErr, awaitErr |-> NoErr, slept |-> 0,
     writes |-> <<>>, calls |-> <<>>]

Verbs ==
    {"CreateTunnel", "RebuildTunnel", "DestroyTunnel", "TunnelStatus",
     "ListInstances", "ListPlans", "ListImages", "ListRegions",
     "ListStackScripts"}

Plans == {"", "g5-nanode-1"}
Regions == {"", "eu-west"}
Tokens == {"", "token"}

\* the first step of each verb
Entry(verb) ==
    CASE verb = "CreateTunnel" -> "c_guard"
      [] verb = "RebuildTunnel" -> "r_guard"
      [] verb = "DestroyTunnel" -> "d_guard"
      [] verb = "TunnelStatus" -> "status"
      [] OTHER -> "list"

Finished(p) == inv[p].pc \in {"idle", "done", "panic"}

\* the handler's record after a step: new position, responses and calls added
Step(p, pc, writes, calls) ==
    [inv[p] EXCEPT !.pc = pc,
                   !.writes = inv[p].writes \o writes,
                   !.calls = inv[p].calls \o calls]

Other == <<loopVarShared, cleanStart, cursor, probe>>

\* dispatchVerb holding a mutex for the length of a verb
dispatchVerbSerialised(p, verb, plan, region, token) ==
    /\ \A q \in Procs : Finished(q)
    /\ started < MaxCalls
    /\ started' = started + 1
    /\ inv' = [inv EXCEPT ![p] =
                 [Idle EXCEPT !.pc = Entry(verb), !.verb = verb, !.plan = plan,
                              !.region = region, !.token = token]]
    /\ UNCHANGED <<instances, nextId, Other>>

(* dispatchVerb: a decoded request starts its verb on a fresh protobufLinode;
   extractAuth gives the token ("" when the request carries no auth) *)
dispatchVerb(p, verb, plan, region, token) ==
    /\ Finished(p)
    /\ started < MaxCalls
    /\ started' = started + 1
    /\ inv' = [inv EXCEPT ![p] =
                 [Idle EXCEPT !.pc = Entry(verb), !.verb = verb, !.plan = plan,
                              !.region = region, !.token = token]]
    /\ UNCHANGED <<instances, nextId, Other>>

\* an authedR that builds a request whatever the API key is
PanicsNever(p) == FALSE

\* authedR panics when the LinodeAPI has no API key: the verb is abandoned
Panics(p) == inv[p].token = ""

Panic(p) ==
    /\ inv' = [inv EXCEPT ![p].pc = "panic"]
    /\ UNCHANGED <<instances, nextId, started, Other>>

---------------------------------------------------------------------------
(* CreateTunnel *)

\* a CreateTunnel that does not validate plan and region
CreateGuardNoValidation(p) ==
    /\ inv[p].pc = "c_guard"
    /\ IF Panics(p)
       THEN Panic(p)
       ELSE /\ \E failAt \in FailPoints(instances) :
                 LET lst == ListAll(instances, failAt)
                     gerr == ensureTunnelDoesNotExist(lst, instanceLabel)
                     w1 == IF gerr.nil THEN <<>>
                           ELSE <<WriteError("CreateTunnel", gerr)>>
                     s == Step(p, "c_script", w1,
                               PageCalls("/linode/instances", lst.reqs))
                 IN  inv' = [inv EXCEPT ![p] =
                               [s EXCEPT !.listing = lst, !.guardErr = gerr]]
            /\ UNCHANGED <<instances, nextId, started, Other>>

(* CreateTunnel up to its first return past the guard: the guard lookup,
   whose failure is written but not returned on, then the validation of
   plan and region. *)
CreateGuard(p) ==
    /\ inv[p].pc = "c_guard"
    /\ IF Panics(p)
       THEN Panic(p)
       ELSE /\ \E failAt \in FailPoints(instances) :
                 LET lst == ListAll(instances, failAt)
                     gerr == ensureTunnelDoesNotExist(lst, instanceLabel)
                     w1 == IF gerr.nil THEN <<>>
                           ELSE <<WriteError("CreateTunnel", gerr)>>
                     verr == IF inv[p].plan = ""
                             THEN Err("Linode plan is empty or missing")
                             ELSE IF inv[p].region = ""
                                  THEN Err("Linode region is empty or missing")
                                  ELSE NoErr
                     w2 == IF verr.nil THEN <<>>
                           ELSE <<WriteError("CreateTunnel", verr)>>
                     s == Step(p, IF verr.nil THEN "c_script" ELSE "done",
                               w1 \o w2, PageCalls("/linode/instances", lst.reqs))
                 IN  inv' = [inv EXCEPT ![p] =
                               [s EXCEPT !.listing = lst, !.guardErr = gerr]]
            /\ UNCHANGED <<instances, nextId, started, Other>>

\* a verb that writes the script lookup's error and goes on
ScriptStepNoReturn(p, verb, nextpc) ==
    \E cat \in Catalogs : \E failAt \in FailPoints(cat) :
        LET lst == ListAll(cat, failAt)
            r == lookupScript(lst, instanceScript)
            calls == PageCalls("/linode/stackscripts", lst.reqs)
        IN  inv' = [inv EXCEPT ![p] =
                      IF r.err.nil
                      THEN [Step(p, nextpc, <<>>, calls) EXCEPT !.script = r.script]
                      ELSE Step(p, nextpc, <<WriteError(verb, r.err)>>, calls)]

\* makeStackScriptParams as CreateTunnel and RebuildTunnel call it
ScriptStep(p, verb, nextpc) ==
    \E cat \in Catalogs : \E failAt \in FailPoints(cat) :
        LET lst == ListAll(cat, failAt)
            r == lookupScript(lst, instanceScript)
            calls == PageCalls("/linode/stackscripts", lst.reqs)
        IN  inv' = [inv EXCEPT ![p] =
                      IF r.err.nil
                      THEN [Step(p, nextpc, <<>>, calls) EXCEPT !.script = r.script]
                      ELSE Step(p, "done", <<WriteError(verb, r.err)>>, calls)]

CreateScript(p) ==
    /\ inv[p].pc = "c_script"
    /\ ScriptStep(p, "CreateTunnel", "c_post")
    /\ UNCHANGED <<instances, nextId, started, Other>>

\* a CreateTunnel that sends a failed POST again
CreatePostRetries(p) ==
    /\ inv[p].pc = "c_post"
    /\ LET call == Call("POST", "/linode/instances", 0, instanceLabel)
       IN  \E ok \in BOOLEAN :
             IF ok
             THEN LET new == [id |-> nextId, label |-> instanceLabel,
                              status |-> LinodeStatusProvisioning]
                  IN  /\ instances' = Append(instances, new)
                      /\ nextId' = nextId + 1
                      /\ inv' = [inv EXCEPT ![p] =
                                   [Step(p, "poll", <<>>, <<call>>)
                                      EXCEPT !.instance = new, !.attempt = 0]]
             ELSE /\ inv' = [inv EXCEPT ![p] = Step(p, "c_post", <<>>, <<call>>)]
                  /\ UNCHANGED <<instances, nextId>>
    /\ UNCHANGED <<started, Other>>

\* tunnelBuilder.Create(): one POST; the provider adds the instance
CreatePost(p) ==
    /\ inv[p].pc = "c_post"
    /\ LET call == Call("POST", "/linode/instances", 0, instanceLabel)
       IN  \E ok \in BOOLEAN :
             IF ok
             THEN LET new == [id |-> nextId, label |-> instanceLabel,
                              status |-> LinodeStatusProvisioning]
                  IN  /\ instances' = Append(instances, new)
                      /\ nextId' = nextId + 1
                      /\ inv' = [inv EXCEPT ![p] =
                                   [Step(p, "poll", <<>>, <<call>>)
                                      EXCEPT !.instance = new, !.attempt = 0]]
             ELSE /\ inv' = [inv EXCEPT ![p] =
                               Step(p, "done",
                                    <<WriteError("CreateTunnel",
                                                 Err("POST request failed"))>>,
                                    <<call>>)]
                  /\ UNCHANGED <<instances, nextId>>
    /\ UNCHANGED <<started, Other>>

---------------------------------------------------------------------------
(* awaitUntilRunning, one QueryLinode per step, and what CreateTunnel and
   RebuildTunnel write when it returns *)

\* the status the provider may report next for an instance that is `status`
NextStatus(status) ==
    IF status = LinodeStatusRunning
    THEN {LinodeStatusRunning}
    ELSE {status, LinodeStatusBooting, LinodeStatusRunning}

SetStatus(id, status) ==
    [i \in 1..Len(instances) |->
        IF instances[i].id = id
        THEN [instances[i] EXCEPT !.status = status]
        ELSE instances[i]]

\* time.Sleep(delay * 2) before the first query, in units of delay
graceSleep == 2

\* the error QueryLinode returns when its request fails
QueryFailed == Err("GET request failed")

\* the error of a poll that ran out of attempts
TookTooLong == Err("Instance took too long to come online")

\* QueryLinode: the instance as the provider has it now, or the request's error
QueryResults(id) ==
    {[info |-> NilInfo, err |-> QueryFailed]} \cup
    {[info |-> [Lookup(id) EXCEPT !.status = st], err |-> NoErr] :
        st \in IF Lookup(id) = NilInfo THEN {} ELSE NextStatus(Lookup(id).status)}

\* an iteration that goes on polling although the instance is running
awaitIterationIgnoresRunning(attempt, q) ==
    IF ~q.err.nil
    THEN [returns |-> TRUE, latest |-> NilInfo, err |-> q.err,
          attempt |-> attempt, sleep |-> 0]
    ELSE IF attempt + 1 >= maxAttempts
    THEN [returns |-> TRUE, latest |-> NilInfo, err |-> TookTooLong,
          attempt |-> attempt + 1, sleep |-> 0]
    ELSE [returns |-> FALSE, latest |-> NilInfo, err |-> NoErr,
          attempt |-> attempt + 1, sleep |-> 1]

\* an iteration that never gives up on an instance that is not running
awaitIterationNoLimit(attempt, q) ==
    IF ~q.err.nil
    THEN [returns |-> TRUE, latest |-> NilInfo, err |-> q.err,
          attempt |-> attempt, sleep |-> 0]
    ELSE IF q.info.status = LinodeStatusRunning
    THEN [returns |-> TRUE, latest |-> q.info, err |-> NoErr,
          attempt |-> attempt, sleep |-> 0]
    ELSE [returns |-> FALSE, latest |-> NilInfo, err |-> NoErr,
          attempt |-> Min(attempt + 1, maxAttempts), sleep |-> 1]

\* an iteration that retries after a failed query
awaitIterationRetries(attempt, q) ==
    IF ~q.err.nil /\ attempt + 1 < maxAttempts
    THEN [returns |-> FALSE, latest |-> NilInfo, err |-> NoErr,
          attempt |-> attempt + 1, sleep |-> 1]
    ELSE IF ~q.err.nil
    THEN [returns |-> TRUE, latest |-> NilInfo, err |-> q.err,
          attempt |-> attempt, sleep |-> 0]
    ELSE IF q.info.status = LinodeStatusRunning
    THEN [returns |-> TRUE, latest |-> q.info, err |-> NoErr,
          attempt |-> attempt, sleep |-> 0]
    ELSE IF attempt + 1 >= maxAttempts
    THEN [returns |-> TRUE, latest |-> NilInfo, err |-> TookTooLong,
          attempt |-> attempt + 1, sleep |-> 0]
    ELSE [returns |-> FALSE, latest |-> NilInfo, err |-> NoErr,
          attempt |-> attempt + 1, sleep |-> 1]

(* one iteration of awaitUntilRunning's loop on the query result q: whether
   the poll returns, what it returns, the attempt counter and the sleep that
   follows *)
awaitIteration(attempt, q) ==
    IF ~q.err.nil
    THEN [returns |-> TRUE, latest |-> NilInfo, err |-> q.err,
          attempt |-> attempt, sleep |-> 0]
    ELSE IF q.info.status = LinodeStatusRunning
    THEN [returns |-> TRUE, latest |-> q.info, err |-> NoErr,
          attempt |-> attempt, sleep |-> 0]
    ELSE IF attempt + 1 >= maxAttempts
    THEN [returns |-> TRUE, latest |-> NilInfo, err |-> TookTooLong,
          attempt |-> attempt + 1, sleep |-> 0]
    ELSE [returns |-> FALSE, latest |-> NilInfo, err |-> NoErr,
          attempt |-> attempt + 1, sleep |-> 1]

\* a verb that always answers with what the poll returned
awaitResponseLatest(verb, instance, latest, awaitErr) ==
    WriteMessage(verb, linodeInstanceToProtobuf(latest), 0)

\* a verb that answers a failed poll with the poll's error
awaitResponseFails(verb, instance, latest, awaitErr) ==
    IF awaitErr.nil
    THEN WriteMessage(verb, linodeInstanceToProtobuf(latest), 0)
    ELSE WriteError(verb, awaitErr)

(* what CreateTunnel and RebuildTunnel write when the poll returns: the
   latest snapshot, or on awaitErr the instance Create / Rebuild returned *)
awaitResponse(verb, instance, latest, awaitErr) ==
    IF awaitErr.nil
    THEN WriteMessage(verb, linodeInstanceToProtobuf(latest), 0)
    ELSE WriteMessage(verb, linodeInstanceToProtobuf(instance), 0)

Poll(p) ==
    /\ inv[p].pc = "poll"
    /\ LET me == inv[p]
           id == me.instance.id
           call == Call("GET", "/linode/instances/%d", id, Lookup(id).label)
           grace == IF me.slept = 0 THEN graceSleep ELSE 0
       IN  \E q \in QueryResults(id) :
             LET it == awaitIteration(me.attempt, q)
                 polled == [me EXCEPT !.attempt = it.attempt,
                                      !.queryErr = q.err,
                                      !.snapshot = IF q.err.nil THEN q.info ELSE @,
                                      !.slept = @ + grace + it.sleep,
                                      !.calls = @ \o <<call>>]
             IN  /\ instances' = IF q.err.nil
                                 THEN SetStatus(id, q.info.status)
                                 ELSE instances
                 /\ inv' = [inv EXCEPT ![p] =
                       IF it.returns
                       THEN [polled EXCEPT
                               !.pc = "done",
                               !.latest = it.latest,
                               !.awaitErr = it.err,
                               !.writes = @ \o <<awaitResponse(me.verb,
                                    me.instance, it.latest, it.err)>>]
                       ELSE polled]
    /\ UNCHANGED <<nextId, started, Other>>

---------------------------------------------------------------------------
(* RebuildTunnel *)

\* TunnelStatus: the response that carries the guard's instance
StatusWrites(info) ==
    <<WriteMessage("TunnelStatus", linodeInstanceToProtobuf(info), 0)>>

\* ensureTunnelExists as RebuildTunnel, DestroyTunnel and TunnelStatus call
\* it; answers: the verb answers with the instance at once (TunnelStatus)
\* a guard whose error is dropped: the verb goes on without an instance
ExistsStepSwallows(p, failAt, verb, nextpc, answers) ==
    LET lst == ListAll(instances, failAt)
        r == ensureTunnelExists(lst, instanceLabel)
        calls == PageCalls("/linode/instances", lst.reqs)
        s == Step(p, nextpc,
                  IF answers THEN StatusWrites(r.info) ELSE <<>>, calls)
    IN  inv' = [inv EXCEPT ![p] =
                  [s EXCEPT !.listing = lst, !.guardErr = r.err,
                            !.tunnel = r.info]]

ExistsStep(p, failAt, verb, nextpc, answers) ==
    LET lst == ListAll(instances, failAt)
        r == ensureTunnelExists(lst, instanceLabel)
        calls == PageCalls("/linode/instances", lst.reqs)
        s == IF r.err.nil
             THEN Step(p, nextpc,
                       IF answers THEN StatusWrites(r.info) ELSE <<>>, calls)
             ELSE Step(p, "done", <<WriteError(verb, r.err)>>, calls)
    IN  inv' = [inv EXCEPT ![p] =
                  [s EXCEPT !.listing = lst, !.guardErr = r.err,
                            !.tunnel = r.info]]

RebuildGuard(p) ==
    /\ inv[p].pc = "r_guard"
    /\ IF Panics(p)
       THEN Panic(p)
       ELSE /\ \E failAt \in FailPoints(instances) :
                 ExistsStep(p, failAt, "RebuildTunnel", "r_script", FALSE)
            /\ UNCHANGED <<instances, nextId, started, Other>>

RebuildScript(p) ==
    /\ inv[p].pc = "r_script"
    /\ ScriptStep(p, "RebuildTunnel", "r_post")
    /\ UNCHANGED <<instances, nextId, started, Other>>

\* tunnelRebuilder.Rebuild(): one POST to the rebuild endpoint of tunnel.ID
RebuildPost(p) ==
    /\ inv[p].pc = "r_post"
    /\ LET id == inv[p].tunnel.id
           cur == Lookup(id)
           call == Call("POST", "/linode/instances/%d/rebuild", id, cur.label)
       IN  \/ /\ inv' = [inv EXCEPT ![p] =
                           Step(p, "done",
                                <<WriteError("RebuildTunnel",
                                             Err("POST request failed"))>>,
                                <<call>>)]
              /\ UNCHANGED instances
           \/ /\ cur # NilInfo
              /\ instances' = SetStatus(id, LinodeStatusRebuilding)
              /\ inv' = [inv EXCEPT ![p] =
                           [Step(p, "poll", <<>>, <<call>>)
                              EXCEPT !.instance =
                                        [cur EXCEPT !.status = LinodeStatusRebuilding],
                                     !.attempt = 0]]
    /\ UNCHANGED <<nextId, started, Other>>

---------------------------------------------------------------------------
(* DestroyTunnel *)

DestroyGuard(p) ==
    /\ inv[p].pc = "d_guard"
    /\ IF Panics(p)
       THEN Panic(p)
       ELSE /\ \E failAt \in FailPoints(instances) :
                 ExistsStep(p, failAt, "DestroyTunnel", "d_delete", FALSE)
            /\ UNCHANGED <<instances, nextId, started, Other>>

\* api.DeleteInstance(tunnel.ID): one DELETE; the provider drops the instance
DestroyDelete(p) ==
    /\ inv[p].pc = "d_delete"
    /\ LET id == inv[p].tunnel.id
           cur == Lookup(id)
           call == Call("DELETE", "/linode/instances/%d", id, cur.label)
       IN  \/ /\ inv' = [inv EXCEPT ![p] =
                           Step(p, "done",
                                <<WriteError("DestroyTunnel",
                                             Err("DELETE request failed"))>>,
                                <<call>>)]
              /\ UNCHANGED instances
           \/ /\ cur # NilInfo
              /\ instances' = SelectSeq(instances, LAMBDA x : x.id # id)
              /\ inv' = [inv EXCEPT ![p] =
                           Step(p, "done",
                                <<WriteMessage("DestroyTunnel", NoInstance, 0)>>,
                                <<call>>)]
    /\ UNCHANGED <<nextId, started, Other>>

---------------------------------------------------------------------------
(* TunnelStatus and the List verbs *)

\* a TunnelStatus that goes on to delete the instance it found
TunnelStatusDeletes(p) ==
    /\ inv[p].pc = "status"
    /\ IF Panics(p)
       THEN Panic(p)
       ELSE /\ \E failAt \in FailPoints(instances) :
                 ExistsStep(p, failAt, "TunnelStatus", "d_delete", FALSE)
            /\ UNCHANGED <<instances, nextId, started, Other>>

TunnelStatus(p) ==
    /\ inv[p].pc = "status"
    /\ IF Panics(p)
       THEN Panic(p)
       ELSE /\ \E failAt \in FailPoints(instances) :
                 ExistsStep(p, failAt, "TunnelStatus", "done", TRUE)
            /\ UNCHANGED <<instances, nextId, started, Other>>

\* a List verb: the listing, then one response
ListStep(p, ep, all) ==
    \E failAt \in FailPoints(all) :
        LET lst == ListAll(all, failAt)
            calls == PageCalls(ep, lst.reqs)
            w == IF lst.err.nil
                 THEN WriteMessage(inv[p].verb, NoInstance, Len(lst.list))
                 ELSE WriteError(inv[p].verb, lst.err)
        IN  inv' = [inv EXCEPT ![p] =
                      [Step(p, "done", <<w>>, calls) EXCEPT !.listing = lst]]

ListInstances(p) ==
    /\ inv[p].pc = "list"
    /\ inv[p].verb = "ListInstances"
    /\ IF Panics(p)
       THEN Panic(p)
       ELSE /\ ListStep(p, "/linode/instances", instances)
            /\ UNCHANGED <<instances, nextId, started, Other>>

ListStackScripts(p) ==
    /\ inv[p].pc = "list"
    /\ inv[p].verb = "ListStackScripts"
    /\ IF Panics(p)
       THEN Panic(p)
       ELSE /\ \E cat \in Catalogs : ListStep(p, "/linode/stackscripts", cat)
            /\ UNCHANGED <<instances, nextId, started, Other>>

ListImages(p) ==
    /\ inv[p].pc = "list"
    /\ inv[p].verb = "ListImages"
    /\ IF Panics(p)
       THEN Panic(p)
       ELSE /\ \E cat \in Catalogs : ListStep(p, "/images", cat)
            /\ UNCHANGED <<instances, nextId, started, Other>>

\* ListPlans and ListRegions list through unprivR: no token is needed
ListPlans(p) ==
    /\ inv[p].pc = "list"
    /\ inv[p].verb = "ListPlans"
    /\ \E cat \in Catalogs : ListStep(p, "/linode/types", cat)
    /\ UNCHANGED <<instances, nextId, started, Other>>

ListRegions(p) ==
    /\ inv[p].pc = "list"
    /\ inv[p].verb = "ListRegions"
    /\ \E cat \in Catalogs : ListStep(p, "/regions", cat)
    /\ UNCHANGED <<instances, nextId, started, Other>>

---------------------------------------------------------------------------
(* The engine serving one request at a time *)

CursorIdle == [all |-> <<>>, page |-> 1, list |-> <<>>, reqs |-> <<>>,
               hasMore |-> TRUE, err |-> NoErr, calls |-> 0]

ProbeIdle == [fn |-> "none"]

Init ==
    /\ loopVarShared \in BOOLEAN
    /\ instances \in Accounts
    /\ nextId = Len(instances) + 1
    /\ cleanStart = (RoleAt(instances) = {})
    /\ started = 0
    /\ inv = [p \in Procs |-> Idle]
    /\ cursor = CursorIdle
    /\ probe = ProbeIdle

Invoke(p) ==
    \/ \E plan \in Plans, region \in Regions, token \in Tokens :
          dispatchVerb(p, "CreateTunnel", plan, region, token)
    \/ \E verb \in Verbs \ {"CreateTunnel"}, token \in Tokens :
          dispatchVerb(p, verb, "", "", token)

Steps(p) ==
    \/ CreateGuard(p)
    \/ CreateScript(p)
    \/ CreatePost(p)
    \/ Poll(p)
    \/ RebuildGuard(p)
    \/ RebuildScript(p)
    \/ RebuildPost(p)
    \/ DestroyGuard(p)
    \/ DestroyDelete(p)
    \/ TunnelStatus(p)
    \/ ListInstances(p)
    \/ ListStackScripts(p)
    \/ ListImages(p)
    \/ ListPlans(p)
    \/ ListRegions(p)

Handler(p) ==
    \/ Invoke(p)
    \/ Steps(p)

Next == Handler(1)

Spec == Init /\ [][Next]_vars

---------------------------------------------------------------------------
(* One request from dispatch to its last step, on any account *)

InvokeFirst(p) ==
    /\ started = 0
    /\ Invoke(p)

NextRequest ==
    \/ InvokeFirst(1)
    \/ Steps(1)

SpecRequest == Init /\ [][NextRequest]_vars

(* One request whose poll is not left waiting for ever: every QueryLinode
   returns and every sleep ends *)
SpecRequestFair == SpecRequest /\ WF_vars(Poll(1))

---------------------------------------------------------------------------
(* Two CreateTunnel requests served at once: net/http runs each request's
   handler on its own goroutine, and dispatchVerb takes no lock.  The
   requests are followed from dispatch to the return of tunnelBuilder.Create();
   the polling after it only reads the created instance and is left to the
   one-request-at-a-time runs. *)

InitRace ==
    /\ loopVarShared \in BOOLEAN
    /\ instances \in { a \in Accounts : RoleAt(a) = {} }
    /\ nextId = Len(instances) + 1
    /\ cleanStart = TRUE
    /\ started = 0
    /\ inv = [p \in Procs |-> Idle]
    /\ cursor = CursorIdle
    /\ probe = ProbeIdle

InvokeCreate(p) ==
    \E plan \in Plans, region \in Regions, token \in Tokens :
        dispatchVerb(p, "CreateTunnel", plan, region, token)

NextRace ==
    \E p \in Procs :
        \/ InvokeCreate(p)
        \/ CreateGuard(p)
        \/ CreateScript(p)
        \/ CreatePost(p)

SpecRace == InitRace /\ [][NextRace]_vars

---------------------------------------------------------------------------
(* A pageIterator driven on its own: a List* loop, one next() per step *)

ItemValues == {"a", "b"}

Listings == UNION { [1..n -> ItemValues] : n \in 0..MaxItems }

InitPage ==
    /\ loopVarShared = FALSE
    /\ instances = <<>>
    /\ nextId = 1
    /\ cleanStart = TRUE
    /\ started = 0
    /\ inv = [p \in Procs |-> Idle]
    /\ \E all \in Listings : cursor = [CursorIdle EXCEPT !.all = all]
    /\ probe = ProbeIdle

\* one turn of the loop `for { item, hasNext := iter.next() ... }`
CursorNext ==
    /\ cursor.hasMore
    /\ cursor.err.nil
    /\ \E ok \in BOOLEAN :
         LET r == next(cursor.page, cursor.all, ok)
         IN  cursor' = [cursor EXCEPT
                          !.page = r.page,
                          !.list = IF r.err.nil THEN @ \o r.data ELSE @,
                          !.reqs = Append(@, pageParam(cursor.page)),
                          !.hasMore = r.hasMore,
                          !.err = r.err,
                          !.calls = @ + 1]
    /\ UNCHANGED <<loopVarShared, instances, nextId, cleanStart, started, inv,
                   probe>>

NextPage == CursorNext

SpecPage == InitPage /\ [][NextPage]_vars

\* every call of next() returns: the loop is not stopped between two turns
SpecPageFair == SpecPage /\ WF_vars(CursorNext)

---------------------------------------------------------------------------
(* makeStackScriptParams on its own: the script lookup and the parameter
   map, for any result of ListStackScriptsPrivate and any feature options *)

\* entries of a script listing handed to the lookup
MaxScripts == 3

ScriptLists ==
    UNION { { [i \in 1..n |-> [id |-> 100 + i, label |-> f[i]]]
              : f \in [1..n -> ScriptLabels] } : n \in 0..MaxScripts }

\* a nil options pointer
NilOptions == [nil |-> TRUE]

WireguardOptions ==
    {NilOptions} \cup
    {[nil |-> FALSE, Port |-> 51820, ServerKey |-> "wgkey", PeerKeys |-> ks] :
        ks \in {<<>>, <<"peer1">>, <<"peer1", "peer2">>}}

ObfsproxyIPv4Options == {NilOptions, [nil |-> FALSE, Port |-> 443, Secret |-> "s4"]}

ObfsproxyIPv6Options == {NilOptions, [nil |-> FALSE, Port |-> 8443, Secret |-> "s6"]}

RECURSIVE Join(_, _)
\* strings.Join
Join(elems, sep) ==
    IF Len(elems) = 0 THEN ""
    ELSE IF Len(elems) = 1 THEN elems[1]
    ELSE elems[1] \o sep \o Join(Tail(elems), sep)

\* a parameter map that leaves out the flag of a feature that is off
scriptParamsNoDisableFlag(username, password, wg, obfs4, obfs6) ==
    [udf_local_user_name |-> username, udf_local_user_password |-> password]
    @@ (IF ~wg.nil
        THEN [udf_enable_wireguard |-> 1,
              udf_wireguard_port |-> wg.Port,
              udf_wireguard_private_key |-> wg.ServerKey,
              udf_wireguard_peer_keys |-> Join(wg.PeerKeys, " ")]
        ELSE <<>>)
    @@ (IF ~obfs4.nil
        THEN [udf_enable_obfs4 |-> 1,
              udf_obfs4_port |-> obfs4.Port,
              udf_obfs4_secret |-> obfs4.Secret]
        ELSE <<>>)
    @@ (IF ~obfs6.nil
        THEN [udf_enable_obfs6 |-> 1,
              udf_obfs6_port |-> obfs6.Port,
              udf_obfs6_secret |-> obfs6.Secret]
        ELSE <<>>)

\* a params map that starts from the entries of the map built before it
scriptParamsKeepsEntries(username, password, wg, obfs4, obfs6) ==
    ([udf_local_user_name |-> username, udf_local_user_password |-> password]
     @@ (IF ~wg.nil
         THEN [udf_enable_wireguard |-> 1,
               udf_wireguard_port |-> wg.Port,
               udf_wireguard_private_key |-> wg.ServerKey,
               udf_wireguard_peer_keys |-> Join(wg.PeerKeys, " ")]
         ELSE [udf_enable_wireguard |-> 0])
     @@ (IF ~obfs4.nil
         THEN [udf_enable_obfs4 |-> 1,
               udf_obfs4_port |-> obfs4.Port,
               udf_obfs4_secret |-> obfs4.Secret]
         ELSE [udf_enable_obfs4 |-> 0])
     @@ (IF ~obfs6.nil
         THEN [udf_enable_obfs6 |-> 1,
               udf_obfs6_port |-> obfs6.Port,
               udf_obfs6_secret |-> obfs6.Secret]
         ELSE [udf_enable_obfs6 |-> 0]))
    @@ (IF probe.fn = "params" /\ probe.heap # <<>>
        THEN probe.heap[Len(probe.heap)]
        ELSE <<>>)

\* the params map of makeStackScriptParams, keyed by the UDF names
scriptParams(username, password, wg, obfs4, obfs6) ==
    [udf_local_user_name |-> username, udf_local_user_password |-> password]
    @@ (IF ~wg.nil
        THEN [udf_enable_wireguard |-> 1,
              udf_wireguard_port |-> wg.Port,
              udf_wireguard_private_key |-> wg.ServerKey,
              udf_wireguard_peer_keys |-> Join(wg.PeerKeys, " ")]
        ELSE [udf_enable_wireguard |-> 0])
    @@ (IF ~obfs4.nil
        THEN [udf_enable_obfs4 |-> 1,
              udf_obfs4_port |-> obfs4.Port,
              udf_obfs4_secret |-> obfs4.Secret]
        ELSE [udf_enable_obfs4 |-> 0])
    @@ (IF ~obfs6.nil
        THEN [udf_enable_obfs6 |-> 1,
              udf_obfs6_port |-> obfs6.Port,
              udf_obfs6_secret |-> obfs6.Secret]
        ELSE [udf_enable_obfs6 |-> 0])

\* makeStackScriptParams; lst: what ListStackScriptsPrivate returned
makeStackScriptParams(lst, scriptName, username, password, wg, obfs4, obfs6) ==
    LET r == lookupScript(lst, scriptName)
    IN  IF ~r.err.nil
        THEN [script |-> NilScript, params |-> <<>>, err |-> r.err]
        ELSE [script |-> r.script,
              params |-> scriptParams(username, password, wg, obfs4, obfs6),
              err |-> NoErr]

InitParams ==
    /\ loopVarShared \in BOOLEAN
    /\ instances = <<>>
    /\ nextId = 1
    /\ cleanStart = TRUE
    /\ started = 0
    /\ inv = [p \in Procs |-> Idle]
    /\ cursor = CursorIdle
    /\ \E scripts \in ScriptLists, ok \in BOOLEAN, name \in ScriptLabels,
          wg \in WireguardOptions, obfs4 \in ObfsproxyIPv4Options,
          obfs6 \in ObfsproxyIPv6Options :
          probe = [fn |-> "makeStackScriptParams",
                   lst |-> [list |-> scripts,
                            err |-> IF ok THEN NoErr ELSE Err("GET request failed"),
                            reqs |-> <<>>],
                   scriptName |-> name,
                   username |-> "user", password |-> "secret",
                   wg |-> wg, obfs4 |-> obfs4, obfs6 |-> obfs6,
                   done |-> FALSE,
                   script |-> NilScript, params |-> <<>>, err |-> NoErr]

CallMakeStackScriptParams ==
    /\ probe.fn = "makeStackScriptParams"
    /\ ~probe.done
    /\ LET r == makeStackScriptParams(probe.lst, probe.scriptName,
                                      probe.username, probe.password,
                                      probe.wg, probe.obfs4, probe.obfs6)
       IN  probe' = [probe EXCEPT !.done = TRUE, !.script = r.script,
                                  !.params = r.params, !.err = r.err]
    /\ UNCHANGED <<loopVarShared, instances, nextId, cleanStart, started, inv,
                   cursor>>

NextParams == CallMakeStackScriptParams

SpecParams == InitParams /\ [][NextParams]_vars

---------------------------------------------------------------------------
(* createError on its own: the error payload of a response, built from a
   *LinodeError (the provider's decoded error body) or from any other error *)

\* longest errors list of a provider error body
MaxEntries == 2

ErrorEntries == [Field : {"", "label", "region"}, Reason : {"is required", "is not valid"}]

RECURSIVE EntryLists(_)
EntryLists(n) ==
    IF n = 0 THEN {<<>>}
    ELSE LET shorter == EntryLists(n - 1)
         IN  shorter \cup {Append(l, e) : l \in shorter, e \in ErrorEntries}

\* *LinodeError values: any errors list, also an empty one; linodeSimpleExec
\* sets at most one of the two flags
LinodeErrors ==
    [linode : {TRUE}, Errors : EntryLists(MaxEntries),
     isAuthError : BOOLEAN, isPermissionsError : BOOLEAN]
    \ [linode : {TRUE}, Errors : EntryLists(MaxEntries),
       isAuthError : {TRUE}, isPermissionsError : {TRUE}]

\* errors of any other type, with the text of Error()
PlainErrors ==
    [linode : {FALSE},
     msg : {"Tunnel already exists", "Tunnel does not exist",
            "GET request failed", "Instance took too long to come online"}]

NilHolepuncherError == [nil |-> TRUE]

\* the protoapi.LinodeError payload: Details is the repeated entry field
\* (a nil slice is the empty sequence), Error the optional message
createError(err) ==
    IF err.linode
    THEN [Details |-> [i \in 1..Len(err.Errors) |->
                          [Field |-> err.Errors[i].Field,
                           Reason |-> err.Errors[i].Reason]],
          Error |-> NilHolepuncherError]
    ELSE [Details |-> <<>>,
          Error |-> [nil |-> FALSE, Message |-> err.msg]]

InitError ==
    /\ loopVarShared = FALSE
    /\ instances = <<>>
    /\ nextId = 1
    /\ cleanStart = TRUE
    /\ started = 0
    /\ inv = [p \in Procs |-> Idle]
    /\ cursor = CursorIdle
    /\ \E err \in LinodeErrors \cup PlainErrors :
          probe = [fn |-> "createError", err |-> err, done |-> FALSE,
                   payload |-> [Details |-> <<>>, Error |-> NilHolepuncherError]]

CallCreateError ==
    /\ probe.fn = "createError"
    /\ ~probe.done
    /\ probe' = [probe EXCEPT !.done = TRUE, !.payload = createError(probe.err)]
    /\ UNCHANGED <<loopVarShared, instances, nextId, cleanStart, started, inv,
                   cursor>>

NextError == CallCreateError

SpecError == InitError /\ [][NextError]_vars

---------------------------------------------------------------------------
(* makeStackScriptParams called several times with changing feature
   options: every call makes a new map (params := make(...)), kept here in a
   heap of maps; the script listing always holds the script *)

\* calls of makeStackScriptParams in a row
MaxBuilds == 3

InitToggle ==
    /\ loopVarShared \in BOOLEAN
    /\ instances = <<>>
    /\ nextId = 1
    /\ cleanStart = TRUE
    /\ started = 0
    /\ inv = [p \in Procs |-> Idle]
    /\ cursor = CursorIdle
    /\ probe = [fn |-> "params", heap |-> <<>>, history |-> <<>>]

BuildParams ==
    /\ probe.fn = "params"
    /\ Len(probe.history) < MaxBuilds
    /\ \E wg \in WireguardOptions, obfs4 \in ObfsproxyIPv4Options,
          obfs6 \in ObfsproxyIPv6Options :
          LET lst == [list |-> <<[id |-> 101, label |-> instanceScript]>>,
                      err |-> NoErr, reqs |-> <<0>>]
              r == makeStackScriptParams(lst, instanceScript, "user", "secret",
                                         wg, obfs4, obfs6)
          IN  probe' = [probe EXCEPT
                          !.heap = Append(@, r.params),
                          !.history = Append(@, [wg |-> wg, obfs4 |-> obfs4,
                                                 obfs6 |-> obfs6,
                                                 ref |-> Len(probe.heap) + 1])]
    /\ UNCHANGED <<loopVarShared, instances, nextId, cleanStart, started, inv,
                   cursor>>

NextToggle == BuildParams

SpecToggle == InitToggle /\ [][NextToggle]_vars

---------------------------------------------------------------------------
(* linodeSimpleExec on its own: one request, any reply of the provider *)

\* net/http status codes the classification names
StatusUnauthorized == 401
StatusForbidden == 403

Methods == {"GET", "POST", "DELETE", "HEAD", "PUT", "PATCH", "TRACE"}

KnownMethods == {"GET", "POST", "DELETE", "HEAD", "PUT", "PATCH"}

Endpoints == {"/linode/instances", "/linode/stackscripts"}

StatusCodes == {200, 204, 299, 300, 400, 401, 403, 404, 500}

(* what response.Error() holds: nothing, the *LinodeError decoded from the
   body, or an object of another type *)
ErrObjects == {"nil", "LinodeError", "other"}

\* the replies to a request: none (the transport failed), or a response
Replies ==
    {[ok |-> FALSE, status |-> 0, errObject |-> "nil"]} \cup
    {[ok |-> TRUE, status |-> st, errObject |-> eo] :
        st \in StatusCodes, eo \in ErrObjects}

\* errors.Wrapf(err, "%s request ('%s') failed", method, endpoint)
Wrapf(method, endpoint) ==
    [nil |-> FALSE, linode |-> FALSE,
     msg |-> <<method, " request ('", endpoint, "') failed">>]

\* errors.Errorf("API error (%s '%s'): %s", method, endpoint, detail)
Errorf(method, endpoint, detail) ==
    [nil |-> FALSE, linode |-> FALSE,
     msg |-> <<"API error (", method, " '", endpoint, "'): ", detail>>]

\* a classification that takes every error status for an auth error
linodeErrorAlwaysAuth(status) ==
    [nil |-> FALSE, linode |-> TRUE,
     isAuthError |-> TRUE,
     isPermissionsError |-> FALSE]

\* the *LinodeError of a response, with the flags set from its status
linodeError(status) ==
    [nil |-> FALSE, linode |-> TRUE,
     isAuthError |-> (status = StatusUnauthorized),
     isPermissionsError |-> (status = StatusForbidden)]

\* the status WriteError gives an error that is not an auth or permissions error
StatusTeapot == 418

\* an executor that sends a failed request a second time
linodeSimpleExecRetries(method, endpoint, reply) ==
    IF method \notin KnownMethods
    THEN [panic |-> TRUE, data |-> "nil", requests |-> 0,
          err |-> [nil |-> TRUE, linode |-> FALSE]]
    ELSE IF ~reply.ok
    THEN [panic |-> FALSE, data |-> "nil", requests |-> 2,
          err |-> Wrapf(method, endpoint)]
    ELSE IF reply.status > 299
    THEN [panic |-> FALSE, data |-> "nil", requests |-> 2,
          err |-> Errorf(method, endpoint, "error object")]
    ELSE [panic |-> FALSE, data |-> "result", requests |-> 1,
          err |-> [nil |-> TRUE, linode |-> FALSE]]

(* linodeSimpleExec: the apiResult and the number of requests sent, or the
   panic on an unknown method *)
linodeSimpleExec(method, endpoint, reply) ==
    IF method \notin KnownMethods
    THEN [panic |-> TRUE, data |-> "nil", requests |-> 0,
          err |-> [nil |-> TRUE, linode |-> FALSE]]
    ELSE IF ~reply.ok
    THEN [panic |-> FALSE, data |-> "nil", requests |-> 1,
          err |-> Wrapf(method, endpoint)]
    ELSE IF reply.status > 299
    THEN [panic |-> FALSE, data |-> "nil", requests |-> 1,
          err |-> IF reply.errObject = "LinodeError"
                  THEN linodeError(reply.status)
                  ELSE IF reply.errObject # "nil"
                  THEN Errorf(method, endpoint, "error object")
                  ELSE Errorf(method, endpoint,
                              "No error object, details missing")]
    ELSE [panic |-> FALSE, data |-> "result", requests |-> 1,
          err |-> [nil |-> TRUE, linode |-> FALSE]]

\* a writer that answers every LinodeError with 401
errorStatusAlwaysUnauthorized(err) ==
    IF err.linode THEN StatusUnauthorized ELSE StatusTeapot

\* WriteError: the status of the response, from the error's type and flags
errorStatus(err) ==
    IF err.linode
    THEN IF err.isAuthError THEN StatusUnauthorized
         ELSE IF err.isPermissionsError THEN StatusForbidden
         ELSE StatusTeapot
    ELSE StatusTeapot

InitExec ==
    /\ loopVarShared = FALSE
    /\ instances = <<>>
    /\ nextId = 1
    /\ cleanStart = TRUE
    /\ started = 0
    /\ inv = [p \in Procs |-> Idle]
    /\ cursor = CursorIdle
    /\ \E method \in Methods, endpoint \in Endpoints, reply \in Replies :
          probe = [fn |-> "linodeSimpleExec",
                   method |-> method, endpoint |-> endpoint, reply |-> reply,
                   done |-> FALSE,
                   result |-> [panic |-> FALSE, data |-> "nil", requests |-> 0,
                               err |-> [nil |-> TRUE, linode |-> FALSE]],
                   written |-> 0]

CallLinodeSimpleExec ==
    /\ probe.fn = "linodeSimpleExec"
    /\ ~probe.done
    /\ probe' = [probe EXCEPT
                   !.done = TRUE,
                   !.result = linodeSimpleExec(probe.method, probe.endpoint,
                                               probe.reply)]
    /\ UNCHANGED <<loopVarShared, instances, nextId, cleanStart, started, inv,
                   cursor>>

\* a caller hands the executor's error to protobufHTTPWriter.WriteError
CallWriteError ==
    /\ probe.fn = "linodeSimpleExec"
    /\ probe.done
    /\ ~probe.result.panic
    /\ ~probe.result.err.nil
    /\ probe.written = 0
    /\ probe' = [probe EXCEPT !.written = errorStatus(probe.result.err)]
    /\ UNCHANGED <<loopVarShared, instances, nextId, cleanStart, started, inv,
                   cursor>>

NextExec ==
    \/ CallLinodeSimpleExec
    \/ CallWriteError

SpecExec == InitExec /\ [][NextExec]_vars

---------------------------------------------------------------------------
(* LinodeInstanceBuilder and LinodeInstanceRebuilder on their own: setters
   and any number of Create() / Rebuild() calls on one builder *)

\* Create() / Rebuild() calls on one builder
MaxCreates == 3

BuilderLabels == {"", "hp_instance"}

BuilderScripts == {0, 101}

\* NewInstanceBuilder(region, linodeType) / NewInstanceRebuilder(id)
NewBuilder(kind) ==
    IF kind = "LinodeInstanceBuilder"
    THEN [Region |-> "eu-west", Type |-> "g5-nanode-1", Label |-> "",
          StackscriptID |-> 0]
    ELSE [id |-> 1, StackscriptID |-> 0]

\* the endpoint Create() / Rebuild() posts to
builderEndpoint(kind) ==
    IF kind = "LinodeInstanceBuilder"
    THEN "/linode/instances"
    ELSE "/linode/instances/%d/rebuild"

InitBuilder ==
    /\ loopVarShared = FALSE
    /\ instances = <<>>
    /\ nextId = 1
    /\ cleanStart = TRUE
    /\ started = 0
    /\ inv = [p \in Procs |-> Idle]
    /\ cursor = CursorIdle
    /\ \E kind \in {"LinodeInstanceBuilder", "LinodeInstanceRebuilder"},
          apiKey \in Tokens :
          probe = [fn |-> "builder", kind |-> kind, apiKey |-> apiKey,
                   cfg |-> NewBuilder(kind),
                   calls |-> 0, panicked |-> FALSE,
                   posts |-> <<>>, results |-> <<>>]

BuilderUnchanged ==
    UNCHANGED <<loopVarShared, instances, nextId, cleanStart, started, inv,
                cursor>>

SetLabel ==
    /\ probe.fn = "builder" /\ ~probe.panicked
    /\ probe.kind = "LinodeInstanceBuilder"
    /\ \E label \in BuilderLabels : probe' = [probe EXCEPT !.cfg.Label = label]
    /\ BuilderUnchanged

SetStackscript ==
    /\ probe.fn = "builder" /\ ~probe.panicked
    /\ \E id \in BuilderScripts : probe' = [probe EXCEPT !.cfg.StackscriptID = id]
    /\ BuilderUnchanged

\* a builder that does not send a configuration it has sent before
builderPostOnce(ok) ==
    IF probe.apiKey = ""
    THEN [probe EXCEPT !.panicked = TRUE]
    ELSE IF \E i \in 1..Len(probe.posts) : probe.posts[i].body = probe.cfg
    THEN [probe EXCEPT !.calls = @ + 1,
                       !.results = Append(@, IF ok THEN "instance" ELSE "error")]
    ELSE [probe EXCEPT
            !.calls = @ + 1,
            !.posts = Append(@, [m |-> "POST", ep |-> builderEndpoint(probe.kind),
                                 body |-> probe.cfg]),
            !.results = Append(@, IF ok THEN "instance" ELSE "error")]

(* Create() and Rebuild(): authedR (a panic without an API key), then one
   linodePOST with the builder as body; ok: the POST succeeded *)
builderPost(ok) ==
    IF probe.apiKey = ""
    THEN [probe EXCEPT !.panicked = TRUE]
    ELSE [probe EXCEPT
            !.calls = @ + 1,
            !.posts = Append(@, [m |-> "POST", ep |-> builderEndpoint(probe.kind),
                                 body |-> probe.cfg]),
            !.results = Append(@, IF ok THEN "instance" ELSE "error")]

Create ==
    /\ probe.fn = "builder" /\ ~probe.panicked
    /\ probe.kind = "LinodeInstanceBuilder"
    /\ probe.calls < MaxCreates
    /\ \E ok \in BOOLEAN : probe' = builderPost(ok)
    /\ BuilderUnchanged

Rebuild ==
    /\ probe.fn = "builder" /\ ~probe.panicked
    /\ probe.kind = "LinodeInstanceRebuilder"
    /\ probe.calls < MaxCreates
    /\ \E ok \in BOOLEAN : probe' = builderPost(ok)
    /\ BuilderUnchanged

NextBuilder ==
    \/ SetLabel
    \/ SetStackscript
    \/ Create
    \/ Rebuild

SpecBuilder == InitBuilder /\ [][NextBuilder]_vars

---------------------------------------------------------------------------
(* Properties *)

\* the handler has run its guard lookup
Guarded(p) == inv[p].pc \notin {"idle", "panic", "c_guard", "r_guard", "d_guard",
                                "status", "list"}
              \/ (inv[p].verb = "TunnelStatus" /\ inv[p].pc = "done")

ExistsVerbs == {"RebuildTunnel", "DestroyTunnel", "TunnelStatus"}

CallsOf(p, m, ep) ==
    { i \in 1..Len(inv[p].calls) : inv[p].calls[i].m = m /\ inv[p].calls[i].ep = ep }

(* C1: starting from an account with no role instance, verbs run one at a
   time, the account never holds more than one instance whose label starts
   with the role prefix. *)
C1_AtMostOneRoleInstance ==
    cleanStart => Cardinality(RoleAt(instances)) <= 1

(* C2: when CreateTunnel's guard fails (a match exists or the listing
   failed), no script listing and no creation POST is issued and the verb
   ends with an error. *)
C2_GuardFailureStopsCreate ==
    \A p \in Procs :
        (inv[p].verb = "CreateTunnel" /\ Guarded(p) /\ ~inv[p].guardErr.nil)
        => /\ inv[p].pc = "done"
           /\ CallsOf(p, "GET", "/linode/stackscripts") = {}
           /\ CallsOf(p, "POST", "/linode/instances") = {}

(* C3: a verb that has returned has written exactly one response. *)
C3_ExactlyOneResponse ==
    \A p \in Procs : inv[p].pc = "done" => Len(inv[p].writes) = 1

(* C4: a listing driven to hasMore = false with no failed call is the
   concatenation of all the provider's pages, in order. *)
C4_ListingIsAllPages ==
    (~cursor.hasMore /\ cursor.err.nil) => cursor.list = cursor.all

(* C5: when the listing the guard got holds exactly one instance with the
   role prefix, ensureTunnelExists returns that instance's record. *)
C5_SingleMatchReturned ==
    \A p \in Procs :
        (inv[p].verb \in ExistsVerbs /\ Guarded(p) /\ inv[p].listing.err.nil
           /\ Cardinality(RoleAt(inv[p].listing.list)) = 1)
        => \E i \in RoleAt(inv[p].listing.list) :
              inv[p].tunnel = inv[p].listing.list[i]

(* C6: every DELETE and every rebuild POST targets an instance whose label
   starts with the role prefix. *)
C6_OnlyRoleInstancesMutated ==
    \A p \in Procs : \A i \in 1..Len(inv[p].calls) :
        LET c == inv[p].calls[i]
        IN  (c.m = "DELETE" \/ c.ep = "/linode/instances/%d/rebuild")
            => StartsWithRole(c.tlabel)

(* C7: with a successful listing, ensureTunnelDoesNotExist fails ("Tunnel
   already exists") iff a listed instance has the role prefix, and
   ensureTunnelExists fails ("Tunnel does not exist") iff none has. *)
C7_GuardFailsIff ==
    \A p \in Procs :
        (Guarded(p) /\ inv[p].listing.err.nil)
        => /\ inv[p].verb = "CreateTunnel"
              => /\ ~inv[p].guardErr.nil <=> RoleAt(inv[p].listing.list) # {}
                 /\ ~inv[p].guardErr.nil
                    => inv[p].guardErr.msg = "Tunnel already exists"
           /\ inv[p].verb \in ExistsVerbs
              => /\ ~inv[p].guardErr.nil <=> RoleAt(inv[p].listing.list) = {}
                 /\ ~inv[p].guardErr.nil
                    => inv[p].guardErr.msg = "Tunnel does not exist"

\* C7 witness: a Create guard that failed on a match listed after a
\* non-matching instance
C7_Witness ==
    /\ inv[1].verb = "CreateTunnel"
    /\ Guarded(1)
    /\ inv[1].listing.err.nil
    /\ inv[1].guardErr.msg = "Tunnel already exists"
    /\ Len(inv[1].listing.list) = 2
    /\ RoleAt(inv[1].listing.list) = {2}

(* C8: with two or more matches, ensureTunnelExists does not fail and
   returns the first match in listing order. *)
C8_FirstMatchReturned ==
    \A p \in Procs :
        (inv[p].verb \in ExistsVerbs /\ Guarded(p) /\ inv[p].listing.err.nil
           /\ Cardinality(RoleAt(inv[p].listing.list)) >= 2)
        => /\ inv[p].guardErr.nil
           /\ \E i \in RoleAt(inv[p].listing.list) :
                 /\ \A j \in RoleAt(inv[p].listing.list) : i <= j
                 /\ inv[p].tunnel = inv[p].listing.list[i]

(* C9: CreateTunnel with an empty plan or region ends with a validation
   error and has sent nothing to the provider. *)
C9_ValidationBeforeNetwork ==
    \A p \in Procs :
        (inv[p].verb = "CreateTunnel" /\ inv[p].pc = "done"
           /\ (inv[p].plan = "" \/ inv[p].region = ""))
        => /\ inv[p].calls = <<>>
           /\ inv[p].writes # <<>>
           /\ inv[p].writes[Len(inv[p].writes)].kind = "error"

(* C10: nothing serialises two CreateTunnel requests: a request is
   dispatched whenever its handler is free and a handler's creation POST
   never waits, whatever the other handler is doing; and when both guard
   lookups have observed "does not exist" and both creation POSTs have
   succeeded, the account holds two distinct instances with the role label. *)
C10_RaceLeavesTwo ==
    /\ \A p \in Procs :
          /\ (Finished(p) /\ started < MaxCalls) => ENABLED InvokeCreate(p)
          /\ inv[p].pc = "c_post" => ENABLED CreatePost(p)
    /\ \A p, q \in Procs :
          (/\ p # q
           /\ Guarded(p) /\ inv[p].listing.err.nil /\ inv[p].guardErr.nil
           /\ Guarded(q) /\ inv[q].listing.err.nil /\ inv[q].guardErr.nil
           /\ inv[p].instance # NilInfo
           /\ inv[q].instance # NilInfo)
          => /\ inv[p].instance.id # inv[q].instance.id
             /\ \A r \in {p, q} :
                   \E i \in RoleAt(instances) : instances[i].id = inv[r].instance.id
             /\ Cardinality(RoleAt(instances)) >= 2

\* C10 witness: from an empty account both guards listed nothing, both POSTs
\* succeeded, and the account holds two role instances
C10_Witness ==
    /\ \A p \in Procs :
          /\ inv[p].verb = "CreateTunnel"
          /\ Guarded(p)
          /\ inv[p].listing.err.nil
          /\ inv[p].listing.list = <<>>
          /\ inv[p].guardErr.nil
          /\ inv[p].instance # NilInfo
    /\ Len(instances) = 2
    /\ RoleAt(instances) = {1, 2}


---------------------------------------------------------------------------
(* The poll of CreateTunnel and RebuildTunnel *)

PollVerbs == {"CreateTunnel", "RebuildTunnel"}

\* the status queries a handler has sent
Polls(p) == Cardinality(CallsOf(p, "GET", "/linode/instances/%d"))

\* the handler has polled at least once
Polled(p) == inv[p].verb \in PollVerbs /\ Polls(p) > 0

LastWrite(p) == inv[p].writes[Len(inv[p].writes)]

(* C11: while every status query succeeds, the poll goes on exactly as long
   as no query has reported running and fewer than 20 queries were sent: a
   running snapshot at the k-th query (k <= 20) is returned after exactly k
   queries, and 20 queries without one end the poll with the timeout error,
   which is not the error of a failed request; there is no 21st query. *)
C11_PollReturns ==
    \A p \in Procs :
        (Polled(p) /\ inv[p].queryErr.nil) =>
            /\ Polls(p) <= maxAttempts
            /\ TookTooLong # QueryFailed
            /\ IF inv[p].snapshot.status = LinodeStatusRunning
               THEN /\ inv[p].pc = "done"
                    /\ inv[p].awaitErr.nil
                    /\ inv[p].latest = inv[p].snapshot
                    /\ Polls(p) = inv[p].attempt + 1
               ELSE /\ Polls(p) = inv[p].attempt
                    /\ inv[p].latest = NilInfo
                    /\ IF Polls(p) < maxAttempts
                       THEN inv[p].pc = "poll" /\ inv[p].awaitErr.nil
                       ELSE inv[p].pc = "done" /\ inv[p].awaitErr = TookTooLong

C11_Witness ==
    /\ Polled(1)
    /\ inv[1].pc = "done"
    /\ inv[1].queryErr.nil
    /\ inv[1].awaitErr = TookTooLong
    /\ Polls(1) = maxAttempts

(* C12: a status query that fails ends the poll at once: the poll returns
   that query's error, and the failed query is the last one; no sleep
   follows it. *)
C12_QueryErrorEndsPoll ==
    \A p \in Procs :
        (Polled(p) /\ ~inv[p].queryErr.nil) =>
            /\ inv[p].pc = "done"
            /\ inv[p].awaitErr = inv[p].queryErr
            /\ inv[p].latest = NilInfo
            /\ Polls(p) = inv[p].attempt + 1
            /\ inv[p].slept = graceSleep + inv[p].attempt

C12_Witness ==
    /\ Polled(1)
    /\ inv[1].pc = "done"
    /\ inv[1].awaitErr = QueryFailed
    /\ Polls(1) = 3

(* C13: when the poll times out after a successful Create (Rebuild), the
   verb's response is a success message whose instance is the record that
   Create (Rebuild) returned. *)
C13_TimeoutAnswersWithCreated ==
    \A p \in Procs :
        (Polled(p) /\ inv[p].pc = "done" /\ inv[p].awaitErr = TookTooLong) =>
            LastWrite(p) =
                WriteMessage(inv[p].verb,
                             linodeInstanceToProtobuf(inv[p].instance), 0)

C13_Witness ==
    /\ Polled(1)
    /\ inv[1].verb = "RebuildTunnel"
    /\ inv[1].pc = "done"
    /\ inv[1].awaitErr = TookTooLong
    /\ LastWrite(1).kind = "message"
    /\ LastWrite(1).instance.Id = inv[1].instance.id

(* C14 as stated: when the poll runs out of attempts, the success response
   carries the snapshot of the last successful status query. *)
C14_TimeoutAnswersWithSnapshot ==
    \A p \in Procs :
        (Polled(p) /\ inv[p].pc = "done" /\ inv[p].awaitErr = TookTooLong) =>
            LastWrite(p).instance = linodeInstanceToProtobuf(inv[p].snapshot)

(* C14 amended: when the poll runs out of attempts, the success response
   names the polled instance with the status it had when Create or Rebuild
   returned (provisioning, rebuilding), whatever status the last query saw. *)
C14_TimeoutAnswersWithOldStatus ==
    \A p \in Procs :
        (Polled(p) /\ inv[p].pc = "done" /\ inv[p].awaitErr = TookTooLong) =>
            /\ LastWrite(p).kind = "message"
            /\ LastWrite(p).instance.Id = inv[p].snapshot.id
            /\ LastWrite(p).instance.Status =
                  IF inv[p].verb = "CreateTunnel"
                  THEN statusValue(LinodeStatusProvisioning)
                  ELSE statusValue(LinodeStatusRebuilding)

C14_Witness ==
    /\ Polled(1)
    /\ inv[1].verb = "CreateTunnel"
    /\ inv[1].pc = "done"
    /\ inv[1].awaitErr = TookTooLong
    /\ inv[1].snapshot.status = LinodeStatusBooting
    /\ LastWrite(1).instance.Status = "PROVISIONING"

\* the errors of requests that got no response from the provider
TransportErrors ==
    {Err("GET request failed"), Err("POST request failed"),
     Err("DELETE request failed")}

\* one of the handler's network calls has failed
TransportFailed(p) ==
    \/ inv[p].listing.err \in TransportErrors
    \/ inv[p].queryErr \in TransportErrors
    \/ \E i \in 1..Len(inv[p].writes) : inv[p].writes[i].err \in TransportErrors

(* C15: a verb one of whose network calls failed answers with an error and
   writes no success response. *)
C15_TransportErrorPropagated ==
    \A p \in Procs :
        (inv[p].pc = "done" /\ TransportFailed(p)) =>
            /\ \A i \in 1..Len(inv[p].writes) : inv[p].writes[i].kind = "error"
            /\ inv[p].writes # <<>>

(* C16: a CreateTunnel with plan and region whose guard found no role
   instance and whose script lookup and POST succeeded has sent, in this
   order, the page requests of one instance listing, the page requests of
   one script listing, one POST and then only status queries; when the third
   query reports running the verb is done, with three queries sent and one
   response, the success message carrying that snapshot. *)
C16_CreateCallOrder ==
    \A p \in Procs :
        (/\ inv[p].verb = "CreateTunnel"
         /\ inv[p].listing.err.nil /\ inv[p].guardErr.nil
         /\ inv[p].instance # NilInfo) =>
            LET c == inv[p].calls
                g == Cardinality(CallsOf(p, "GET", "/linode/instances"))
                s == Cardinality(CallsOf(p, "GET", "/linode/stackscripts"))
            IN  /\ inv[p].plan # "" /\ inv[p].region # ""
                /\ g >= 1 /\ s >= 1 /\ Len(c) = g + s + 1 + Polls(p)
                /\ \A i \in 1..g :
                     c[i] = Call("GET", "/linode/instances", pageParam(i), <<>>)
                /\ \A i \in 1..s :
                     c[g + i] = Call("GET", "/linode/stackscripts", pageParam(i), <<>>)
                /\ c[g + s + 1].m = "POST" /\ c[g + s + 1].ep = "/linode/instances"
                /\ \A i \in (g + s + 2)..Len(c) :
                     /\ c[i].m = "GET" /\ c[i].ep = "/linode/instances/%d"
                     /\ c[i].arg = inv[p].instance.id
                /\ (/\ Polls(p) = 3 /\ inv[p].queryErr.nil
                    /\ inv[p].snapshot.status = LinodeStatusRunning) =>
                      /\ inv[p].pc = "done"
                      /\ inv[p].writes =
                           <<WriteMessage("CreateTunnel",
                               linodeInstanceToProtobuf(inv[p].snapshot), 0)>>
                      /\ inv[p].snapshot.id = inv[p].instance.id

C16_Witness ==
    /\ inv[1].verb = "CreateTunnel"
    /\ inv[1].listing.err.nil /\ inv[1].guardErr.nil
    /\ inv[1].pc = "done"
    /\ Polls(1) = 3
    /\ Len(inv[1].writes) = 1
    /\ LastWrite(1).instance.Status = "RUNNING"
    /\ inv[1].listing.list # <<>>
    /\ inv[1].script.label = instanceScript


---------------------------------------------------------------------------
(* makeStackScriptParams *)

\* makeStackScriptParams has returned from a call whose listing succeeded
Looked == probe.fn = "makeStackScriptParams" /\ probe.done /\ probe.lst.err.nil

\* the positions of the listing whose label is the requested one
LabelAt(list, name) == { i \in 1..Len(list) : list[i].label = name }

(* C17: when the script listing succeeds, makeStackScriptParams fails with
   the script-missing error exactly when no listed entry has the requested
   label, and otherwise returns a listed entry that has the requested
   label. *)
C17_ScriptHasRequestedLabel ==
    Looked =>
        LET at == LabelAt(probe.lst.list, probe.scriptName)
        IN  /\ (at = {}) <=>
                 (probe.err = Err("Stackscript is missing: " \o probe.scriptName))
            /\ (at # {}) =>
                 /\ probe.err.nil
                 /\ probe.script.label = probe.scriptName
                 /\ \E i \in at : probe.script = probe.lst.list[i]

(* C18: when several listed entries have the requested label,
   makeStackScriptParams returns the last of them in listing order. *)
C18_LastMatchReturned ==
    Looked =>
        LET at == LabelAt(probe.lst.list, probe.scriptName)
        IN  Cardinality(at) >= 2 =>
              /\ probe.err.nil
              /\ probe.script =
                   probe.lst.list[CHOOSE i \in at : \A j \in at : j <= i]

WireguardKeys ==
    {"udf_wireguard_port", "udf_wireguard_private_key", "udf_wireguard_peer_keys"}
Obfs4Keys == {"udf_obfs4_port", "udf_obfs4_secret"}
Obfs6Keys == {"udf_obfs6_port", "udf_obfs6_secret"}

\* the flag of a feature: 1 when its options are given, 0 when they are nil
Flag(options) == IF options.nil THEN 0 ELSE 1

(* C19: for every combination of wireguard, obfs4 and obfs6 options given or
   nil, the params map has the user name and password keys and each
   feature's enable flag, 1 when the feature is given and 0 when not, and
   has a feature's own keys exactly when the feature is given. *)
C19_ParamsFlagsAndKeys ==
    (Looked /\ probe.err.nil) =>
        LET keys == DOMAIN probe.params
        IN  /\ {"udf_local_user_name", "udf_local_user_password"} \subseteq keys
            /\ {"udf_enable_wireguard", "udf_enable_obfs4", "udf_enable_obfs6"}
                  \subseteq keys
            /\ probe.params["udf_enable_wireguard"] = Flag(probe.wg)
            /\ probe.params["udf_enable_obfs4"] = Flag(probe.obfs4)
            /\ probe.params["udf_enable_obfs6"] = Flag(probe.obfs6)
            /\ \A k \in WireguardKeys : k \in keys <=> ~probe.wg.nil
            /\ \A k \in Obfs4Keys : k \in keys <=> ~probe.obfs4.nil
            /\ \A k \in Obfs6Keys : k \in keys <=> ~probe.obfs6.nil

C19_Witness ==
    /\ Looked /\ probe.err.nil
    /\ probe.wg.nil /\ ~probe.obfs4.nil /\ probe.obfs6.nil
    /\ probe.params["udf_enable_wireguard"] = 0
    /\ probe.params["udf_obfs4_port"] = probe.obfs4.Port


---------------------------------------------------------------------------
(* linodeSimpleExec *)

\* linodeSimpleExec has returned for a response with an error status
Refused ==
    /\ probe.fn = "linodeSimpleExec" /\ probe.done
    /\ ~probe.result.panic
    /\ probe.reply.ok /\ probe.reply.status > 299

\* the elements of a formatted message
Parts(msg) == { msg[i] : i \in 1..Len(msg) }

(* C20: for a response with status above 299, linodeSimpleExec returns the
   decoded LinodeError when there is one, with isAuthError true and
   isPermissionsError false for 401, the inverse for 403 and both false for
   any other status; with no decoded LinodeError it returns an error that is
   not a LinodeError and names the method and the endpoint. *)
C20_ErrorClassification ==
    Refused =>
        LET e == probe.result.err
            st == probe.reply.status
        IN  /\ ~e.nil
            /\ probe.result.data = "nil"
            /\ IF probe.reply.errObject = "LinodeError"
               THEN /\ e.linode
                    /\ st = 401 => (e.isAuthError /\ ~e.isPermissionsError)
                    /\ st = 403 => (~e.isAuthError /\ e.isPermissionsError)
                    /\ st \notin {401, 403} =>
                          (~e.isAuthError /\ ~e.isPermissionsError)
               ELSE /\ ~e.linode
                    /\ {probe.method, probe.endpoint} \subseteq Parts(e.msg)

C20_Witness ==
    /\ Refused
    /\ probe.reply.status = 403
    /\ probe.reply.errObject = "LinodeError"
    /\ probe.result.err.linode
    /\ probe.result.err.isPermissionsError


\* WriteError has written the status of the executor's error
Written == probe.fn = "linodeSimpleExec" /\ probe.written # 0

(* C21: the status written with an error is 401 for a LinodeError flagged
   auth, 403 for one flagged permissions, and the generic status (418, also
   written for an error that is not a LinodeError) for every other
   LinodeError; exactly one of the three is written. *)
C21_StatusFromClassification ==
    Written =>
        LET e == probe.result.err
        IN  /\ Cardinality({401, 403, 418} \cap {probe.written}) = 1
            /\ e.linode =>
                 /\ e.isAuthError => probe.written = 401
                 /\ (~e.isAuthError /\ e.isPermissionsError) => probe.written = 403
                 /\ (~e.isAuthError /\ ~e.isPermissionsError) => probe.written = 418
            /\ ~e.linode => probe.written = 418

C21_Witness ==
    /\ Written
    /\ probe.result.err.linode
    /\ probe.result.err.isPermissionsError
    /\ probe.written = 403

\* linodeSimpleExec has returned
Returned ==
    probe.fn = "linodeSimpleExec" /\ probe.done /\ ~probe.result.panic

(* C22: a call of linodeSimpleExec that returns has sent exactly one
   request; its result has no error exactly when the request got a response
   with status at most 299, and an error result carries no data. *)
C22_OneCallNoRetry ==
    Returned =>
        /\ probe.result.requests = 1
        /\ probe.result.err.nil <=>
              (probe.reply.ok /\ probe.reply.status <= 299)
        /\ ~probe.result.err.nil => probe.result.data = "nil"
        /\ probe.result.err.nil => probe.result.data = "result"

C22_Witness ==
    /\ Returned
    /\ ~probe.reply.ok
    /\ ~probe.result.err.nil
    /\ probe.result.requests = 1


---------------------------------------------------------------------------
(* LinodeInstanceBuilder.Create and LinodeInstanceRebuilder.Rebuild *)

(* C23: every Create() (Rebuild()) call that returns has added exactly one
   POST, to the creation (rebuild) endpoint, whose body is the builder's
   configuration at the call: n calls on one builder have sent n POSTs, also
   when the configuration did not change and when a POST failed. *)
C23_OnePostPerCreate ==
    /\ [](probe.fn = "builder" => Len(probe.posts) = probe.calls)
    /\ [][(probe.fn = "builder" /\ probe'.calls = probe.calls + 1) =>
             probe'.posts =
                Append(probe.posts,
                       [m |-> "POST",
                        ep |-> IF probe.kind = "LinodeInstanceBuilder"
                               THEN "/linode/instances"
                               ELSE "/linode/instances/%d/rebuild",
                        body |-> probe.cfg])]_vars

C23_Witness ==
    /\ probe.fn = "builder"
    /\ probe.calls = 3
    /\ Len(probe.posts) = 3
    /\ probe.posts[1] = probe.posts[2]
    /\ probe.results[1] = "error"


---------------------------------------------------------------------------
(* Failure paths and mutating calls of the verbs *)

\* the positions of the handler's POST and DELETE requests
Mutating(p) ==
    { i \in 1..Len(inv[p].calls) : inv[p].calls[i].m \in {"POST", "DELETE"} }

(* C24: a RebuildTunnel, DestroyTunnel or TunnelStatus whose guard got a
   failed listing, or a listing without an instance of the role prefix, is
   done with one response, the error of the listing or "Tunnel does not
   exist", and has sent nothing but the page requests of that listing. *)
C24_MissingTunnelIsAnError ==
    \A p \in Procs :
        (/\ inv[p].verb \in ExistsVerbs /\ Guarded(p)
         /\ (~inv[p].listing.err.nil \/ RoleAt(inv[p].listing.list) = {})) =>
            /\ inv[p].pc = "done"
            /\ inv[p].writes =
                 <<WriteError(inv[p].verb,
                              IF inv[p].listing.err.nil
                              THEN Err("Tunnel does not exist")
                              ELSE inv[p].listing.err)>>
            /\ inv[p].calls = PageCalls("/linode/instances", inv[p].listing.reqs)

C24_Witness ==
    /\ inv[1].verb = "DestroyTunnel"
    /\ inv[1].pc = "done"
    /\ inv[1].listing.err.nil
    /\ inv[1].listing.list # <<>>
    /\ RoleAt(inv[1].listing.list) = {}
    /\ LastWrite(1).err = Err("Tunnel does not exist")

\* the handler has listed the scripts and has no script
ScriptLookupFailed(p) ==
    /\ inv[p].verb \in PollVerbs
    /\ CallsOf(p, "GET", "/linode/stackscripts") # {}
    /\ inv[p].script = NilScript

(* C25: a CreateTunnel or RebuildTunnel whose script lookup failed is done,
   its last response an error, and has sent no POST; no step of the verb up
   to and including the lookup changes the provider's instances. *)
C25_ScriptFailureStopsVerb ==
    /\ [](\A p \in Procs :
            ScriptLookupFailed(p) =>
                /\ inv[p].pc = "done"
                /\ LastWrite(p).kind = "error"
                /\ Mutating(p) = {})
    /\ [][\A p \in Procs :
            (inv[p].pc \in {"c_guard", "c_script", "r_guard", "r_script"}
             /\ inv'[p] # inv[p]) => instances' = instances]_vars

C25_Witness ==
    /\ ScriptLookupFailed(1)
    /\ inv[1].verb = "RebuildTunnel"
    /\ inv[1].pc = "done"
    /\ LastWrite(1).err = Err("Stackscript is missing: " \o instanceScript)

(* C26: every creation POST of a CreateTunnel is sent by a request whose
   plan and region are not empty. *)
C26_NoPostWithoutPlanAndRegion ==
    \A p \in Procs :
        (inv[p].verb = "CreateTunnel"
         /\ CallsOf(p, "POST", "/linode/instances") # {}) =>
            (inv[p].plan # "" /\ inv[p].region # "")

C26_Witness ==
    /\ inv[1].verb = "CreateTunnel"
    /\ CallsOf(1, "POST", "/linode/instances") # {}
    /\ ~inv[1].guardErr.nil

(* C27: one invocation sends at most one POST or DELETE: a CreateTunnel
   only to the creation endpoint, a RebuildTunnel only to the rebuild
   endpoint, a DestroyTunnel only a DELETE, the other verbs none; after one
   that failed the verb is done. *)
C27_AtMostOneMutatingCall ==
    \A p \in Procs :
        /\ Cardinality(Mutating(p)) <= 1
        /\ \A i \in Mutating(p) :
             LET c == inv[p].calls[i]
             IN  \/ inv[p].verb = "CreateTunnel"
                    /\ c.m = "POST" /\ c.ep = "/linode/instances"
                 \/ inv[p].verb = "RebuildTunnel"
                    /\ c.m = "POST" /\ c.ep = "/linode/instances/%d/rebuild"
                 \/ inv[p].verb = "DestroyTunnel"
                    /\ c.m = "DELETE" /\ c.ep = "/linode/instances/%d"
        /\ (inv[p].writes # <<>> /\ LastWrite(p).err \in
               {Err("POST request failed"), Err("DELETE request failed")}) =>
             inv[p].pc = "done"

C27_Witness ==
    /\ inv[1].verb = "CreateTunnel"
    /\ inv[1].pc = "done"
    /\ Cardinality(Mutating(1)) = 1
    /\ LastWrite(1).err = Err("POST request failed")


---------------------------------------------------------------------------
(* The pagination cursor *)

(* C28: the k-th call of next() on a cursor requests page k, the first
   without a page parameter and every later one with page = k; the page
   counter is one more than the number of successful calls, a failed call
   leaving it as it was. *)
C28_KthCallRequestsPageK ==
    /\ Len(cursor.reqs) = cursor.calls
    /\ \A k \in 1..Len(cursor.reqs) :
         cursor.reqs[k] = IF k = 1 THEN 0 ELSE k
    /\ cursor.page = IF cursor.err.nil THEN cursor.calls + 1 ELSE cursor.calls

C28_Witness ==
    /\ cursor.calls = 3
    /\ cursor.reqs = <<0, 2, 3>>
    /\ cursor.err.nil
    /\ cursor.page = 4

(* C29: after a failed page request the cursor has the request's error and
   hasMore false, the listing loop sends no further request, the list holds
   exactly the items of the pages fetched before the failure, and no page
   was requested twice. *)
C29_FailedPageEndsListing ==
    ~cursor.err.nil =>
        /\ cursor.err = Err("GET request failed")
        /\ ~cursor.hasMore
        /\ ~ENABLED CursorNext
        /\ cursor.list =
             SubSeq(cursor.all, 1,
                    Min((cursor.calls - 1) * PageSize, Len(cursor.all)))
        /\ \A i, j \in 1..Len(cursor.reqs) :
             cursor.reqs[i] = cursor.reqs[j] => i = j

C29_Witness ==
    /\ ~cursor.err.nil
    /\ cursor.calls = 2
    /\ Len(cursor.list) = PageSize
    /\ Len(cursor.all) > PageSize


---------------------------------------------------------------------------
(* Termination and sleeps of awaitUntilRunning *)

(* C30: a poll that has begun ends; it has slept nothing before its first
   step, two intervals before the first query, one interval after every
   query it went on from and none after the last, has sent at most 20
   queries and has slept at most 2 + 20 intervals. *)
C30_PollTerminates ==
    /\ [](\A p \in Procs :
            (inv[p].verb \in PollVerbs /\ inv[p].instance # NilInfo) =>
                /\ Polls(p) <= 20
                /\ inv[p].slept <= 2 + 20
                /\ inv[p].slept =
                     IF Polls(p) = 0 THEN 0
                     ELSE 2 + (Polls(p) - 1)
                            + (IF inv[p].pc = "poll" THEN 1 ELSE 0))
    /\ (inv[1].pc = "poll") ~> (inv[1].pc = "done")

C30_Witness ==
    /\ Polled(1)
    /\ inv[1].pc = "done"
    /\ Polls(1) = 20
    /\ inv[1].slept = 21


---------------------------------------------------------------------------
(* Repeated calls of makeStackScriptParams *)

\* two calls were given the same feature options
SameOptions(a, b) == a.wg = b.wg /\ a.obfs4 = b.obfs4 /\ a.obfs6 = b.obfs6

(* C31: the params map depends on the inputs of its own call only: any two
   calls with the same user, password and feature options return equal
   maps, whatever was built between them (a feature given, then nil, then
   given again with the same fields gives the first map again), and every
   call returns a map of its own. *)
C31_ParamsRoundTrip ==
    probe.fn = "params" =>
        \A i, j \in 1..Len(probe.history) :
            /\ SameOptions(probe.history[i], probe.history[j]) =>
                 probe.heap[probe.history[i].ref] = probe.heap[probe.history[j].ref]
            /\ i # j => probe.history[i].ref # probe.history[j].ref

C31_Witness ==
    /\ probe.fn = "params"
    /\ Len(probe.history) = 3
    /\ ~probe.history[1].wg.nil
    /\ probe.history[2].wg.nil
    /\ SameOptions(probe.history[1], probe.history[3])
    /\ probe.history[2].obfs4 = probe.history[1].obfs4
    /\ probe.heap[probe.history[3].ref] = probe.heap[probe.history[1].ref]
    /\ probe.heap[probe.history[2].ref] # probe.heap[probe.history[1].ref]


---------------------------------------------------------------------------
(* createError *)

(* C32: the payload of createError has exactly one of the two error forms:
   for a provider error the entries of its list, in the same order and
   number, and no message; for any other error one message and no entries;
   never both forms and never neither. *)
C32_ExactlyOneErrorForm ==
    (probe.fn = "createError" /\ probe.done) =>
        /\ probe.err.linode =>
             /\ Len(probe.payload.Details) = Len(probe.err.Errors)
             /\ \A i \in 1..Len(probe.err.Errors) :
                   /\ probe.payload.Details[i].Field = probe.err.Errors[i].Field
                   /\ probe.payload.Details[i].Reason = probe.err.Errors[i].Reason
             /\ probe.payload.Error.nil
        /\ ~probe.err.linode =>
             /\ probe.payload.Details = <<>>
             /\ ~probe.payload.Error.nil
             /\ probe.payload.Error.Message = probe.err.msg
        /\ (probe.payload.Details # <<>>) # (~probe.payload.Error.nil)


---------------------------------------------------------------------------
(* The verbs that only read *)

ReadOnlyVerbs ==
    {"TunnelStatus", "ListInstances", "ListPlans", "ListImages", "ListRegions",
     "ListStackScripts"}

\* the endpoint a List verb pages through
ListEndpoint(verb) ==
    CASE verb = "ListInstances" -> "/linode/instances"
      [] verb = "ListStackScripts" -> "/linode/stackscripts"
      [] verb = "ListImages" -> "/images"
      [] verb = "ListPlans" -> "/linode/types"
      [] verb = "ListRegions" -> "/regions"
      [] OTHER -> "/linode/instances"

(* C33: TunnelStatus and the five List verbs only read: every request they
   send is a GET, none is a POST or DELETE, and no step of theirs changes
   the provider's instances; a TunnelStatus or List verb that has answered
   sent the page requests of exactly one listing and nothing else, so a
   TunnelStatus has not polled the status of an instance. *)
C33_ReadOnlyVerbs ==
    /\ [](inv[1].verb \in ReadOnlyVerbs =>
            /\ \A i \in 1..Len(inv[1].calls) : inv[1].calls[i].m = "GET"
            /\ Mutating(1) = {}
            /\ Polls(1) = 0
            /\ inv[1].pc = "done" =>
                 /\ inv[1].listing.reqs # <<>>
                 /\ inv[1].calls = PageCalls(ListEndpoint(inv[1].verb),
                                             inv[1].listing.reqs)
                 /\ Len(inv[1].writes) = 1)
    /\ [][inv'[1].verb \in ReadOnlyVerbs => instances' = instances]_vars

C33_Witness ==
    /\ inv[1].verb = "TunnelStatus"
    /\ inv[1].pc = "done"
    /\ inv[1].guardErr.nil
    /\ inv[1].tunnel # NilInfo
    /\ inv[1].calls = PageCalls("/linode/instances", inv[1].listing.reqs)
    /\ Len(inv[1].calls) = 1
    /\ instances # <<>>


---------------------------------------------------------------------------
(* Termination of the listing loop *)

\* the loop of a List function has returned
LoopEnded == ~cursor.hasMore \/ ~cursor.err.nil

(* C34: with the provider's page count N >= 1 the same on every response,
   the loop of a List function ends, after at most N page requests; it never
   requests a page beyond N and never the same page twice. *)
C34_ListLoopTerminates ==
    /\ [](/\ pageCount(Len(cursor.all)) >= 1
          /\ cursor.calls <= pageCount(Len(cursor.all))
          /\ Len(cursor.reqs) = cursor.calls
          /\ \A i \in 1..Len(cursor.reqs) :
                servedPage(cursor.reqs[i]) \in 1..pageCount(Len(cursor.all))
          /\ \A i, j \in 1..Len(cursor.reqs) :
                servedPage(cursor.reqs[i]) = servedPage(cursor.reqs[j]) => i = j)
    /\ <>[]LoopEnded

C34_Witness ==
    /\ LoopEnded
    /\ cursor.err.nil
    /\ pageCount(Len(cursor.all)) = 4
    /\ cursor.calls = 3


---------------------------------------------------------------------------
(* Requests and the API key *)

\* the verbs that list through unprivR
UnprivilegedVerbs == {"ListPlans", "ListRegions"}

\* the endpoints requested through unprivR
UnprivilegedEndpoints == {"/linode/types", "/regions"}

(* C35: a handler whose request carries no token sends no authenticated
   request: its calls, if any, go to the endpoints listed without a key; an
   authenticated verb without a token stops in authedR at its first step,
   having sent nothing and written nothing; ListPlans and ListRegions never
   stop there and answer with or without a token. *)
C35_NoAuthenticatedCallWithoutKey ==
    /\ inv[1].token = "" =>
         \A i \in 1..Len(inv[1].calls) :
            /\ inv[1].calls[i].ep \in UnprivilegedEndpoints
            /\ inv[1].calls[i].m = "GET"
    /\ (inv[1].token = "" /\ inv[1].verb \in Verbs \ UnprivilegedVerbs) =>
         /\ inv[1].pc \in {Entry(inv[1].verb), "panic"}
         /\ inv[1].calls = <<>>
         /\ inv[1].writes = <<>>
    /\ inv[1].pc = "panic" =>
         inv[1].token = "" /\ inv[1].verb \in Verbs \ UnprivilegedVerbs
    /\ inv[1].verb \in UnprivilegedVerbs =>
         /\ inv[1].pc \in {"list", "done"}
         /\ inv[1].pc = "done" =>
              Len(inv[1].writes) = 1 /\ inv[1].calls # <<>>

C35_Witness ==
    /\ inv[1].token = ""
    /\ inv[1].verb = "RebuildTunnel"
    /\ inv[1].pc = "panic"
    /\ inv[1].calls = <<>>
    /\ instances # <<>>

====
